---- MODULE Spec2Model ----
(***************************************************************************)
(* State-machine model of DatabasePool (src/unnamed/part_000): the two     *)
(* mysql pools, the four WeakMap side tables, query/runQuery with its      *)
(* retry timer, the transaction calls, the pool event hooks, healthcheck   *)
(* and destroy; and of HttpClient (src/src/index.ts) with its retry        *)
(* predicate and DNS cache (src/src/retryable.ts, src/src/dns-cache.ts),   *)
(* introduced in the section "the HTTP client"; of HttpTimer              *)
(* (src/src/timer.ts) and of BrowserHttpClient (src/src/browser/client.ts) *)
(* in the sections of those names.                                         *)
(*                                                                         *)
(* The mysql driver is the environment.  What the model takes from it:     *)
(*  - a pool hands out a free connection, else creates one below its       *)
(*    limit, else queues the callback and emits 'enqueue';                 *)
(*  - a free connection is pinged before it is handed out, so the hand-off  *)
(*    follows the answers to the statements still outstanding on it;       *)
(*  - release() puts the connection in the free list, emits 'release' and  *)
(*    then serves the oldest queued callback; on a connection that left    *)
(*    the pool it does nothing;                                            *)
(*  - destroy() removes the connection from the pool without 'release';    *)
(*  - statements of one connection are answered in issue order; a          *)
(*    connection that left the pool answers with errors only;              *)
(*  - a fatal error takes the connection out of the pool;                  *)
(*  - pool.end() closes the pool to new requests (their callback gets an   *)
(*    error), takes its connections out of it and fails the requests still *)
(*    queued; its callback comes later, with or without an error.          *)
(* A handler runs to completion in one step (single-threaded event loop).  *)
(***************************************************************************)
EXTENDS Integers, Sequences, FiniteSets, TLC

\* ---- program constants ----
TenE5 == 1000000     \* the literal 10e5 of `result.duration[1] / 10e5 > 50`

\* ---- bounds ----
NumCallers == 2      \* concurrent callers of the API
PoolSize == 1        \* connectionLimit of each pool
MaxRetries == 1      \* largest explicit `retries` argument a caller passes
NumCheckers == 1     \* callers that call healthcheck(), in SpecHealth
MaxBudget == 5       \* largest `retries` argument of runQuery, in SpecRetry
MaxHttpRetries == 1  \* largest `retries` of an HTTP client or request, in SpecHttp
MaxAttempts == 3     \* attempts issued for one HTTP request, in SpecHttp
MaxSeconds == 1      \* largest seconds part of a clock reading, in SpecTimer
MaxHeaderLines == 2  \* lines of a raw response-header string, in SpecBrowser

DefaultRetries == 3  \* retries == null ? 3 : retries

Roles == {"master", "replica"}
Conns == Roles \X (1..PoolSize)
NoConn == <<"none", 0>>
Callers == 1..NumCallers
Detached == 0        \* a promise nobody awaits (the forced rollback)
NoRetries == -1      \* the `retries` argument left out (null)

ReadOnly == "read only"
ReadWrite == "read write"
NoTx == "none"
TransactionType == {ReadOnly, ReadWrite}

\* driver errors: the fatal flag and the answer of query.isRetryable(error)
Errors == {"FATAL", "FATAL_RETRYABLE", "RETRYABLE", "PLAIN"}
IsFatal(error) == error \in {"FATAL", "FATAL_RETRYABLE"}
IsRetryable(error) == error \in {"RETRYABLE", "FATAL_RETRYABLE"}
NoneRunningCommit == "Cannot commit transaction; none is running"
NoneRunningRollback == "Cannot rollback transaction; none is running"
CompileError == "COMPILE"
ConnectError == "CONNECT"
PoolClosed == "POOL_CLOSED"
\* healthcheck(): the pool's check has not returned yet
\* a ClusterConfig whose master and replica are different servers
config ==
  [master |-> [host |-> "db-master", port |-> 3306, database |-> "app"],
   replica |-> [host |-> "db-replica", port |-> 3307, database |-> "app"]]

\* `mysql://${host}:${port}/${database}`
Url(poolConfig) == <<"mysql://", poolConfig.host, ":", poolConfig.port, "/", poolConfig.database>>

\* constructor: both urls are built from config.master
masterUrl == Url(config.master)
replicaUrl == Url(config.master)

\* DatabasePool.healthcheck: the url passed along with each pool
PoolUrl(role) == IF role = "master" THEN masterUrl ELSE replicaUrl

NoResult == [available |-> FALSE, warning |-> "none", info |-> "pending"]

VARIABLES
  cstate,           \* driver: "absent" | "free" | "acquiring" | "busy" | "gone" per connection
  stq,              \* driver: statements outstanding on each connection, in issue order
  freeq,            \* driver: free connections of each pool, oldest first
  waitq,            \* driver: callbacks queued on each pool
  destroyed,        \* connections destroy() was called on
  connectionRoles,  \* WeakMap connection -> role
  connectionPools,  \* WeakMap connection -> DatabasePool
  transactions,     \* WeakMap connection -> TransactionType
  holdTimers,       \* WeakMap connection -> timer: "none" | "pending" | "fired"
  opened,           \* server: connections whose session has a transaction started
                    \* and neither committed nor rolled back
  th,               \* per caller: the call in progress and the connection held
  health,           \* per caller of healthcheck(): the master pool's result, once returned
  ended,            \* driver: per pool "open" | "closing" | "closed" | "failed" (pool.end)
  shutdown,         \* the promise of destroy(): "none" | "pending" | "resolved" | "rejected"
  http,             \* the HTTP client: DNS cache, client, attempts of the request, retry timers
  ev                \* what the last step did: driver calls, log lines, settlements

vars == <<cstate, stq, freeq, waitq, destroyed, connectionRoles, connectionPools,
          transactions, holdTimers, opened, th, health, ended, shutdown, http, ev>>

\* one line of ev
Ev(e, c, t, x) == [e |-> e, c |-> c, t |-> t, x |-> x, n |-> 0]
EvN(e, c, t, x, n) == [e |-> e, c |-> c, t |-> t, x |-> x, n |-> n]

IdleCaller ==
  [pc |-> "idle", api |-> "none", kind |-> "none", throws |-> FALSE,
   conn |-> NoConn, first |-> NoConn, own |-> NoConn, pool |-> "none",
   retries |-> NoRetries, given |-> NoRetries, execs |-> 0]

\* the whole state as one record, so a handler is a composition of functions
Cur ==
  [cstate |-> cstate, stq |-> stq, freeq |-> freeq, waitq |-> waitq, destroyed |-> destroyed,
   connectionRoles |-> connectionRoles, connectionPools |-> connectionPools,
   transactions |-> transactions, holdTimers |-> holdTimers, opened |-> opened,
   th |-> th, health |-> health, ended |-> ended, shutdown |-> shutdown,
   http |-> http, ev |-> <<>>]

Commit(S) ==
  /\ cstate' = S.cstate
  /\ stq' = S.stq
  /\ freeq' = S.freeq
  /\ waitq' = S.waitq
  /\ destroyed' = S.destroyed
  /\ connectionRoles' = S.connectionRoles
  /\ connectionPools' = S.connectionPools
  /\ transactions' = S.transactions
  /\ holdTimers' = S.holdTimers
  /\ opened' = S.opened
  /\ th' = S.th
  /\ health' = S.health
  /\ ended' = S.ended
  /\ shutdown' = S.shutdown
  /\ http' = S.http
  /\ ev' = S.ev

Emit(S, e) == [S EXCEPT !.ev = Append(@, e)]
Log(S, level, c, x) == Emit(S, Ev(level, c, Detached, x))

\* ---- HTTP client: module state before any call ----
Undefined == "undefined"
NoClient == [hostname |-> "none", retries |-> 0, isRetryable |-> "none", timeout |-> 0,
             host |-> Undefined]

\* HttpTimer: a timestamp not taken yet, and the result before durations()
NoTime == <<-1, 0>>
NoDurations ==
  [duration |-> NoTime, queued |-> NoTime, dnsLookup |-> NoTime, tcpConnection |-> NoTime,
   tlsHandshake |-> NoTime, timeToFirstByte |-> NoTime, contentDownload |-> NoTime]

NoTimer ==
  [enqueued |-> NoTime, started |-> NoTime, dnsLookupComplete |-> NoTime,
   tcpConnectionEstablished |-> NoTime, tlsHandshakeComplete |-> NoTime,
   firstByteRecieved |-> NoTime, completed |-> NoTime,
   clock |-> <<0, 0>>,         \* the last reading of process.hrtime()
   result |-> NoDurations]     \* what durations() returned last

\* BrowserHttpClient: module counter, the request and what its promise resolved with
NoBrowser ==
  [nextRequestId |-> 1, pc |-> "idle",
   result |-> [status |-> 0, headers |-> <<>>, raw |-> <<>>, json |-> Undefined]]

HttpInit ==
  [dnsCache |-> Undefined,     \* dns-cache.ts: let dnsCache
   data |-> {},                \* dnscache.internalCache.data, its keys
   nextRequestId |-> 1,        \* index.ts: let nextRequestId = 1
   client |-> NoClient,        \* the HttpClient under test
   att |-> <<>>,               \* the attempts of the request, in issue order
   timers |-> <<>>,            \* setTimeout(doRetry, backoff) not yet fired
   timer |-> NoTimer,          \* timer.ts: the HttpTimer of a request
   browser |-> NoBrowser]      \* browser/client.ts: the BrowserHttpClient request

Init ==
  /\ cstate = [c \in Conns |-> "absent"]
  /\ stq = [c \in Conns |-> <<>>]
  /\ freeq = [r \in Roles |-> <<>>]
  /\ waitq = [r \in Roles |-> <<>>]
  /\ destroyed = {}
  /\ connectionRoles = [c \in Conns |-> "none"]
  /\ connectionPools = [c \in Conns |-> "none"]
  /\ transactions = [c \in Conns |-> NoTx]
  /\ holdTimers = [c \in Conns |-> "none"]
  /\ opened = {}
  /\ th = [t \in Callers |-> IdleCaller]
  /\ health = [t \in Callers |-> NoResult]
  /\ ended = [r \in Roles |-> "open"]
  /\ shutdown = "none"
  /\ http = HttpInit
  /\ ev = <<>>

\* ---- settling a promise ----
\* the caller is back to idle; ev keeps how the call went: the call with the
\* retries it was given, then the outcome with the number of times the
\* statement was executed
Settle(S, t, how, x) ==
  IF t = Detached THEN S
  ELSE Emit(Emit([S EXCEPT !.th[t] = [IdleCaller EXCEPT !.own = S.th[t].own]],
                 EvN("call", S.th[t].first, t, S.th[t].api, S.th[t].given)),
            EvN(how, S.th[t].conn, t, x, S.th[t].execs))

Resolve(S, t) == Settle(S, t, "resolve", "ok")

Reject(S, t, error) == Settle(S, t, "reject", error)

\* connection.query(stmt, callback): the statement joins the connection's queue
ConnQuery(S, c, stmt, t) ==
  Emit([S EXCEPT !.stq[c] = Append(@, [stmt |-> stmt, by |-> t])],
       Ev("stmt", c, t, stmt))
\* ---- DatabasePool.rollbackTransaction / commitTransaction, up to the driver call ----
\* ev notes the transaction type each of them reads from the registry
RollbackTransaction(S, c, t) ==
  LET S0 == Emit(S, Ev("rollbackTransaction", c, t, S.transactions[c]))
  IN IF S.transactions[c] = NoTx
     THEN Reject(Log(S0, "error", c, "Attempted to rollback a transaction when none was running"),
                 t, NoneRunningRollback)
     ELSE ConnQuery(Log(S0, "debug", c, "Rolling back MySQL transaction"), c, "rollback", t)

\* variant: the statement is issued without looking at the registry
CommitTransactionUnchecked(S, c, t) ==
  ConnQuery(Log(Emit(S, Ev("commitTransaction", c, t, S.transactions[c])),
                "debug", c, "Commiting MySQL transaction"), c, "commit", t)

CommitTransaction(S, c, t) ==
  LET S0 == Emit(S, Ev("commitTransaction", c, t, S.transactions[c]))
  IN IF S.transactions[c] = NoTx
     THEN Reject(Log(S0, "error", c, "Attempted to commit a transaction when none was running"),
                 t, NoneRunningCommit)
     ELSE ConnQuery(Log(S0, "debug", c, "Commiting MySQL transaction"), c, "commit", t)

\* ---- pool event hooks ----
OnConnection(S, role, c) ==
  Log([S EXCEPT !.connectionRoles[c] = role, !.connectionPools[c] = "dbPool"],
      "silly", c, "New MySQL connection established")

OnAcquire(S, c) == [S EXCEPT !.holdTimers[c] = "pending"]

ForcingRollback == "A connection was released that still had an open transaction; Forcing rollback"

\* variant: the open transaction is logged but not rolled back
OnReleaseNoRollback(S, c) ==
  LET S0 == Emit(S, Ev("onRelease", c, Detached, S.transactions[c]))
      S1 == IF S.transactions[c] # NoTx THEN Log(S0, "error", c, ForcingRollback) ELSE S0
  IN [Log(S1, "silly", c, "MySQL connection released") EXCEPT !.holdTimers[c] = "none"]

\* variant: the release hook also forgets the role and the pool of the connection
OnReleaseForgetsRole(S, c) ==
  LET S0 == Emit(S, Ev("onRelease", c, Detached, S.transactions[c]))
      S1 == IF S.transactions[c] # NoTx
            THEN RollbackTransaction(Log(S0, "error", c, ForcingRollback), c, Detached)
            ELSE S0
      S2 == Log(S1, "silly", c, "MySQL connection released")
  IN [S2 EXCEPT !.holdTimers[c] = "none", !.connectionRoles[c] = "none",
                !.connectionPools[c] = "none"]

OnRelease(S, c) ==
  LET S0 == Emit(S, Ev("onRelease", c, Detached, S.transactions[c]))
      S1 == IF S.transactions[c] # NoTx
            THEN RollbackTransaction(Log(S0, "error", c, ForcingRollback), c, Detached)
            ELSE S0
      S2 == Log(S1, "silly", c, "MySQL connection released")
  IN [S2 EXCEPT !.holdTimers[c] = "none"]

\* ---- driver: the connection leaves its pool (fatal error, destroy) ----
Without(q, c) == SelectSeq(q, LAMBDA x : x # c)

LeavePool(S, c) ==
  [S EXCEPT !.cstate[c] = "gone", !.freeq[c[1]] = Without(@, c)]

\* connection.destroy()
Destroy(S, c) ==
  Emit([LeavePool(S, c) EXCEPT !.destroyed = @ \cup {c}], Ev("destroy", c, Detached, "destroy"))

\* ---- DatabasePool.runQuery ----
\* the call itself: compile, then connection.query
RunQuery(S, t, c, retries) ==
  LET S1 == Log([S EXCEPT !.th[t].conn = c, !.th[t].retries = retries],
                "debug", c, "Starting MySQL Query")
  IN IF S1.th[t].throws
     THEN \* the throw leaves the async executor; nothing settles the promise
          Emit([S1 EXCEPT !.th[t].pc = "hung"], Ev("throw", c, t, CompileError))
     ELSE ConnQuery([S1 EXCEPT !.th[t].pc = "stmt", !.th[t].execs = @ + 1],
                    c, "query", t)

\* variant: the square written as a product by two
BackoffDoubled(retries) == (4 - retries) * 2 * 500

\* variant: retries || 3
RemainingRetriesFalsy(retries) == IF retries \in {NoRetries, 0} THEN DefaultRetries ELSE retries

RemainingRetries(retries) == IF retries = NoRetries THEN DefaultRetries ELSE retries

\* (4 - retries) ** 2 * 500
Backoff(retries) == (4 - retries) * (4 - retries) * 500

\* retry(retries): setTimeout(..., backoff); the closure keeps connection and retries
Retry(S, t, c, retries) ==
  Emit([S EXCEPT !.th[t].pc = "backoff", !.th[t].conn = c, !.th[t].retries = retries],
       EvN("timer", c, t, "retry", Backoff(retries)))

\* what the timer passes to runQuery: the closure's connection, retries - 1
\* variant: the retry runs on another connection than the failed attempt
RetryConnectionOther(S, t) == CHOOSE c \in Conns : c # S.th[t].conn

RetryConnection(S, t) == S.th[t].conn

\* variant: the budget is passed on without the decrement
RetryArgSame(retries) == retries

RetryArg(retries) == retries - 1

\* variant: the retryable test comes before the fatal test
OnErrorRetryableFirst(S, t, c, error) ==
  LET remainingRetries == RemainingRetries(S.th[t].retries)
  IN IF IsRetryable(error) /\ remainingRetries # 0
     THEN Retry(Log(S, "warn", c, "MySQL Query Error"), t, c, remainingRetries)
     ELSE IF IsFatal(error)
     THEN Reject(Destroy(OnRelease(Log(S, "warn", c, "MySQL Query Error"), c), c), t, error)
     ELSE Reject(Log(S, "warn", c, "MySQL Query Error"), t, error)

\* variant: every error that is not fatal is retried
OnErrorRetriesAny(S, t, c, error) ==
  IF IsFatal(error)
  THEN Reject(Destroy(OnRelease(Log(S, "warn", c, "MySQL Query Error"), c), c), t, error)
  ELSE LET remainingRetries == RemainingRetries(S.th[t].retries)
       IN IF remainingRetries # 0
          THEN Retry(Log(S, "warn", c, "MySQL Query Error"), t, c, remainingRetries)
          ELSE Reject(Log(S, "warn", c, "MySQL Query Error"), t, error)

OnError(S, t, c, error) ==
  IF IsFatal(error)
  THEN Reject(Destroy(OnRelease(Log(S, "warn", c, "MySQL Query Error"), c), c), t, error)
  ELSE LET remainingRetries == RemainingRetries(S.th[t].retries)
       IN IF IsRetryable(error)
          THEN IF remainingRetries # 0
               THEN Retry(Log(S, "warn", c, "MySQL Query Error"), t, c, remainingRetries)
               ELSE Reject(Log(S, "warn", c, "MySQL Query Error"), t, error)
          ELSE Reject(Log(S, "warn", c, "MySQL Query Error"), t, error)
\* ---- the continuation of a call once the pool has handed it a connection ----
\* startTransaction after the await: transactions.set, then the start statement
StartTransactionBody(S, t, c) ==
  ConnQuery(Log([S EXCEPT !.transactions[c] = S.th[t].kind, !.th[t].conn = c,
                          !.th[t].pc = "stmt"],
                "debug", c, "Starting new MySQL transaction"),
            c, "start", t)

\* ---- healthcheck(logger, url, pool) and DatabasePool.healthcheck ----
\* process.hrtime(startTime) readings the model draws from: [seconds, nanoseconds]
Durations == {<<0, 20 * TenE5>>, <<0, 50 * TenE5>>, <<0, 50 * TenE5 + 1>>, <<1, 0>>}

SlowWarning == "Connection slower than 50ms"

\* variant: the divisor written 1e5
SlowOneE5(duration) == duration[1] > 0 \/ 10 * duration[2] > 50 * TenE5

\* result.duration[0] > 0 || result.duration[1] / 10e5 > 50 (tuple indices from 1 here)
Slow(duration) == duration[1] > 0 \/ duration[2] > 50 * TenE5

Available(duration) ==
  [available |-> TRUE, warning |-> IF Slow(duration) THEN SlowWarning ELSE "none",
   info |-> "none"]

\* variant: the catch block reports the pool as available
UnavailableAsAvailable(code) == [available |-> TRUE, warning |-> "none", info |-> code]

Unavailable(code) == [available |-> FALSE, warning |-> "none", info |-> code]

\* healthcheck() of one pool returns `status`: the master's result is kept and
\* the replica's check is started (replica.getConnection is requested); the
\* replica's result completes the object literal and resolves the promise
HealthResult(S, t, status) ==
  LET role == S.th[t].pool
      S1 == Emit(S, Ev("status", NoConn, t,
                       [pool |-> role, url |-> PoolUrl(role), status |-> status]))
  IN IF role = "master"
     THEN [S1 EXCEPT !.health[t] = status, !.th[t].pool = "replica", !.th[t].pc = "acq",
                     !.th[t].conn = NoConn]
     ELSE Resolve(Emit([S1 EXCEPT !.health[t] = NoResult],
                       Ev("results", NoConn, t, [master |-> S.health[t], replica |-> status])),
                  t)

\* testPool's getConnection callback with a connection: the round-trip statement
TestPoolConnected(S, t, c) ==
  ConnQuery([S EXCEPT !.th[t].conn = c, !.th[t].pc = "stmt"], c, "version", t)

\* the getConnection callback with an error: getRead/WriteConnection reject,
\* testPool rejects into healthcheck()'s catch
GetConnectionFailed(S, t, error) ==
  IF S.th[t].api = "healthcheck"
  THEN HealthResult(Emit(S, Ev("getConnection", NoConn, t, error)), t, Unavailable(error))
  ELSE Reject(S, t, error)

Continue(S, t, c) ==
  CASE S.th[t].api = "query" -> RunQuery([S EXCEPT !.th[t].first = c], t, c, NoRetries)
    [] S.th[t].api = "startTransaction" -> StartTransactionBody(S, t, c)
    [] S.th[t].api = "healthcheck" -> TestPoolConnected(S, t, c)
    [] OTHER -> Resolve([S EXCEPT !.th[t].conn = c, !.th[t].own = c], t)

\* ---- driver: pool.getConnection(callback) ----
Absent(S, role) == {c \in Conns : c[1] = role /\ S.cstate[c] = "absent"}
Lowest(cs) == CHOOSE c \in cs : \A d \in cs : c[2] <= d[2]

\* the ping of a free connection is answered: 'acquire', then the callback
Acquired(S, t, c) ==
  Continue(OnAcquire(Emit([S EXCEPT !.cstate[c] = "busy"],
                          Ev("acquire", c, t, S.transactions[c])), c), t, c)

GetConnection(S, role, t, connOk) ==
  IF S.ended[role] # "open" THEN GetConnectionFailed(S, t, PoolClosed)
  ELSE IF S.freeq[role] # <<>>
  THEN LET c == Head(S.freeq[role])
           S1 == [S EXCEPT !.freeq[role] = Tail(@), !.cstate[c] = "acquiring",
                           !.th[t].pc = "ping", !.th[t].conn = c]
       IN IF S.stq[c] = <<>> THEN Acquired(S1, t, c) ELSE S1
  ELSE IF Absent(S, role) # {}
  THEN IF connOk
       THEN LET c == Lowest(Absent(S, role))
            IN Acquired(OnConnection(S, role, c), t, c)
       ELSE GetConnectionFailed(S, t, ConnectError)
  ELSE Log([S EXCEPT !.waitq[role] = Append(@, t), !.th[t].pc = "wait"],
           "warn", NoConn,
           "No remaining connections available in the database pool, queue up query")

GetReadConnection(S, t, connOk) ==
  GetConnection([S EXCEPT !.th[t].pool = "replica"], "replica", t, connOk)

GetWriteConnection(S, t, connOk) ==
  GetConnection([S EXCEPT !.th[t].pool = "master"], "master", t, connOk)

\* variant: every query goes to the master pool
QueryConnectionMasterOnly(S, t, connOk) == GetWriteConnection(S, t, connOk)

\* query(): isSelect ? getReadConnection() : getWriteConnection()
QueryConnection(S, t, connOk) ==
  IF S.th[t].kind = "select" THEN GetReadConnection(S, t, connOk)
  ELSE GetWriteConnection(S, t, connOk)

\* variant: every transaction takes its connection from the replica pool
TransactionConnectionReplicaOnly(S, t, connOk) == GetReadConnection(S, t, connOk)

\* startTransaction(): ReadOnly ? getReadConnection() : getWriteConnection()
TransactionConnection(S, t, connOk) ==
  IF S.th[t].kind = ReadOnly THEN GetReadConnection(S, t, connOk)
  ELSE GetWriteConnection(S, t, connOk)

\* ---- driver: connection.release() ----
ReleaseConnection(S, c) ==
  IF S.cstate[c] # "busy" THEN S
  ELSE LET role == c[1]
           S1 == OnRelease(Emit([S EXCEPT !.cstate[c] = "free", !.freeq[role] = Append(@, c)],
                                Ev("release", c, Detached, "release")), c)
       IN IF S1.waitq[role] # <<>> /\ S1.freeq[role] # <<>>
          THEN GetConnection([S1 EXCEPT !.waitq[role] = Tail(@)], role, Head(S1.waitq[role]), TRUE)
          ELSE S1

\* ---- driver: pool.end(callback) ----
\* the pool is closed to new requests, its connections leave it, and the
\* requests still queued get the callback with an error
RECURSIVE FailQueued(_, _, _)
FailQueued(S, q, error) ==
  IF q = <<>> THEN S
  ELSE FailQueued(GetConnectionFailed(S, Head(q), error), Tail(q), error)

RECURSIVE Purge(_, _)
Purge(S, cs) ==
  IF cs = {} THEN S
  ELSE LET c == Lowest(cs) IN Purge(LeavePool(S, c), cs \ {c})

PoolEnd(S, role) ==
  LET live == {c \in Conns : c[1] = role /\ S.cstate[c] \notin {"absent", "gone"}}
      S1 == Emit([Purge(S, live) EXCEPT !.ended[role] = "closing", !.waitq[role] = <<>>],
                 Ev("end", NoConn, Detached, role))
  IN FailQueued(S1, S.waitq[role], PoolClosed)

\* ---- closePool and DatabasePool.destroy ----
\* closePool's promise settles: resolve() or reject(error)
ClosePoolSettled(S, role, ok) ==
  [S EXCEPT !.ended[role] = IF ok THEN "closed" ELSE "failed"]

\* Promise.all over the two closePool promises: rejected with the first
\* rejection, resolved once both are resolved
PromiseAll(S) ==
  IF S.shutdown # "pending" THEN S
  ELSE IF \E r \in Roles : S.ended[r] = "failed"
  THEN Emit([S EXCEPT !.shutdown = "rejected"], Ev("reject", NoConn, Detached, "destroy"))
  ELSE IF \A r \in Roles : S.ended[r] = "closed"
  THEN Emit([S EXCEPT !.shutdown = "resolved"], Ev("resolve", NoConn, Detached, "destroy"))
  ELSE S

\* variant: the replica pool is closed only after the master pool has closed
DestroyMasterFirst(S) == PoolEnd([S EXCEPT !.shutdown = "pending"], "master")

\* destroy(): Promise.all([closePool(this.master), closePool(this.replica)])
DestroyPools(S) == PoolEnd(PoolEnd([S EXCEPT !.shutdown = "pending"], "master"), "replica")

\* ---- the API calls ----
NewCall(t, api, kind, throws) ==
  [IdleCaller EXCEPT !.pc = "acq", !.api = api, !.kind = kind, !.throws = throws,
                     !.own = th[t].own]

Query(t, kind, throws, connOk) ==
  /\ th[t].pc = "idle" /\ th[t].own = NoConn
  /\ Commit(QueryConnection([Cur EXCEPT !.th[t] = NewCall(t, "query", kind, throws)], t, connOk))

GetConnectionCall(t, role, connOk) ==
  /\ th[t].pc = "idle" /\ th[t].own = NoConn
  /\ LET S == [Cur EXCEPT !.th[t] = NewCall(t, "getConnection", role, FALSE)]
     IN Commit(IF role = "replica" THEN GetReadConnection(S, t, connOk)
               ELSE GetWriteConnection(S, t, connOk))

StartTransaction(t, transactionType, connOk) ==
  /\ th[t].pc = "idle" /\ th[t].own = NoConn
  /\ Commit(TransactionConnection(
              [Cur EXCEPT !.th[t] = NewCall(t, "startTransaction", transactionType, FALSE)],
              t, connOk))

RunQueryCall(t, throws, retries) ==
  /\ th[t].pc = "idle" /\ th[t].own # NoConn
  /\ LET c == th[t].own
         S == [Cur EXCEPT !.th[t] = [NewCall(t, "runQuery", "none", throws)
                                       EXCEPT !.first = c, !.given = retries]]
     IN Commit(RunQuery(S, t, c, retries))

CommitCall(t) ==
  /\ th[t].pc = "idle" /\ th[t].own # NoConn
  /\ LET c == th[t].own
         S == [Cur EXCEPT !.th[t] = [NewCall(t, "commitTransaction", "none", FALSE)
                                       EXCEPT !.conn = c, !.pc = "stmt"]]
     IN Commit(CommitTransaction(S, c, t))

RollbackCall(t) ==
  /\ th[t].pc = "idle" /\ th[t].own # NoConn
  /\ LET c == th[t].own
         S == [Cur EXCEPT !.th[t] = [NewCall(t, "rollbackTransaction", "none", FALSE)
                                       EXCEPT !.conn = c, !.pc = "stmt"]]
     IN Commit(RollbackTransaction(S, c, t))

ReleaseCall(t) ==
  /\ th[t].pc = "idle" /\ th[t].own # NoConn
  /\ Commit(ReleaseConnection([Cur EXCEPT !.th[t] = IdleCaller], th[t].own))

\* ---- driver answers: the callbacks ----
\* query.isRetryable is asked about the errors of runQuery's statement only
Answers(c) ==
  LET errs == IF Head(stq[c]).stmt = "query" THEN Errors ELSE {"FATAL", "PLAIN"}
  IN IF cstate[c] = "gone" THEN errs ELSE {"ok"} \cup errs

Pop(c, res) ==
  LET h == Head(stq[c])
      S == Emit(Emit([Cur EXCEPT !.stq[c] = Tail(@)], Ev("callback", c, h.by, h.stmt)),
                Ev("answer", c, h.by, res))
      S1 == IF res # "ok" THEN S
            ELSE IF h.stmt = "start" THEN [S EXCEPT !.opened = @ \cup {c}]
            ELSE IF h.stmt \in {"commit", "rollback"} THEN [S EXCEPT !.opened = @ \ {c}]
            ELSE S
  IN IF res # "ok" /\ IsFatal(res) THEN LeavePool([S1 EXCEPT !.opened = @ \ {c}], c) ELSE S1

\* runQuery's connection.query callback, and query()'s continuation after the await
QueryCallback(c, res) ==
  /\ stq[c] # <<>> /\ Head(stq[c]).stmt = "query" /\ res \in Answers(c)
  /\ LET t == Head(stq[c]).by
         S == Pop(c, res)
     IN IF res # "ok"
        THEN Commit(OnError(S, t, c, res))
        ELSE LET S1 == Resolve(Log(S, "verbose", c, "MySQL Query Complete"), t)
             IN Commit(IF th[t].api = "query" THEN ReleaseConnection(S1, c) ELSE S1)

StartCallback(c, res) ==
  /\ stq[c] # <<>> /\ Head(stq[c]).stmt = "start" /\ res \in Answers(c)
  /\ LET t == Head(stq[c]).by
         S == Pop(c, res)
     IN IF res # "ok"
        THEN Commit(Reject(Log(S, "error", c, "Failed to start MySQL transaction"), t, res))
        ELSE Commit(Resolve([S EXCEPT !.th[t].own = c], t))

\* variant: the failure branch drops the registry entry as the success branch does
CommitCallbackClearsOnFailure(c, res) ==
  /\ stq[c] # <<>> /\ Head(stq[c]).stmt = "commit" /\ res \in Answers(c)
  /\ LET t == Head(stq[c]).by
         S == [Pop(c, res) EXCEPT !.transactions[c] = NoTx]
     IN IF res # "ok"
        THEN Commit(Reject(Log(S, "warn", c, "Failed to commit transaction"), t, res))
        ELSE Commit(Resolve(Log(S, "debug", c, "Commit successful"), t))

CommitCallback(c, res) ==
  /\ stq[c] # <<>> /\ Head(stq[c]).stmt = "commit" /\ res \in Answers(c)
  /\ LET t == Head(stq[c]).by
         S == Pop(c, res)
     IN IF res # "ok"
        THEN Commit(Reject(Log(S, "warn", c, "Failed to commit transaction"), t, res))
        ELSE Commit(Resolve(Log([S EXCEPT !.transactions[c] = NoTx],
                                "debug", c, "Commit successful"), t))

RollbackCallback(c, res) ==
  /\ stq[c] # <<>> /\ Head(stq[c]).stmt = "rollback" /\ res \in Answers(c)
  /\ LET t == Head(stq[c]).by
         S == Pop(c, res)
     IN IF res # "ok"
        THEN Commit(Reject(Log(S, "warn", c, "Failed to rollback transaction"), t, res))
        ELSE Commit(Resolve(Log([S EXCEPT !.transactions[c] = NoTx],
                                "debug", c, "Rollback successful"), t))

\* DatabasePool.healthcheck(): the master pool's check is started
HealthcheckCall(t) ==
  /\ th[t].pc = "idle" /\ th[t].own = NoConn
  /\ Commit([Cur EXCEPT !.th[t] = [NewCall(t, "healthcheck", "none", FALSE)
                                     EXCEPT !.pool = "master"]])

\* driver: the pool takes up testPool's getConnection request
TestPoolServe(t, connOk) ==
  /\ th[t].pc = "acq" /\ th[t].api = "healthcheck"
  /\ Commit(GetConnection(Cur, th[t].pool, t, connOk))

\* testPool's connection.query callback: hrtime, log, release, reject or resolve
HealthCallback(c, res, duration) ==
  /\ stq[c] # <<>> /\ Head(stq[c]).stmt = "version" /\ res \in Answers(c)
  /\ LET t == Head(stq[c]).by
         S == Log(Emit(Pop(c, res), Ev("hrtime", c, t, duration)),
                  "verbose", c, "MySQL Healthcheck Complete")
     IN Commit(HealthResult(ReleaseConnection(S, c), t,
                            IF res # "ok" THEN Unavailable(res) ELSE Available(duration)))

DestroyCall ==
  /\ shutdown = "none"
  /\ Commit(DestroyPools(Cur))

\* driver: a pool's end callback, with or without an error
EndCallback(role, ok) ==
  /\ ended[role] = "closing"
  /\ Commit(PromiseAll(ClosePoolSettled(Cur, role, ok)))

\* the retry timer fires: this.runQuery(connection, query, params, retries - 1)
RetryTimer(t) ==
  /\ th[t].pc = "backoff"
  /\ Commit(RunQuery(Cur, t, RetryConnection(Cur, t), RetryArg(th[t].retries)))

\* driver: the ping of the connection being acquired is answered
PingDone(t) ==
  /\ th[t].pc = "ping" /\ cstate[th[t].conn] = "acquiring" /\ stq[th[t].conn] = <<>>
  /\ Commit(Acquired(Cur, t, th[t].conn))

\* driver: the connection being acquired was lost; the pool asks again
PingFailed(t, connOk) ==
  /\ th[t].pc = "ping" /\ cstate[th[t].conn] = "gone"
  /\ Commit(GetConnection([Cur EXCEPT !.th[t].conn = NoConn], th[t].pool, t, connOk))

\* variant: the listener releases and destroys without looking at error.fatal
ConnectionErrorAlwaysDestroys(c, fatal) ==
  /\ cstate[c] \in {"free", "busy"} /\ stq[c] = <<>>
  /\ LET S == Emit(Cur, EvN("error", c, Detached, "Unhandled MySQL Error",
                            IF fatal THEN 1 ELSE 0))
     IN Commit(Destroy(OnRelease(LeavePool([S EXCEPT !.opened = @ \ {c}], c), c), c))

\* the connection emits 'error' (no statement outstanding to take the error);
\* the log line carries error.fatal
ConnectionError(c, fatal) ==
  /\ cstate[c] \in {"free", "busy"} /\ stq[c] = <<>>
  /\ LET S == Emit(Cur, EvN("error", c, Detached, "Unhandled MySQL Error",
                            IF fatal THEN 1 ELSE 0))
     IN Commit(IF fatal
               THEN Destroy(OnRelease(LeavePool([S EXCEPT !.opened = @ \ {c}], c), c), c)
               ELSE S)

\* a connection that left the pool and that nothing refers to is collected,
\* and its WeakMap entries with it
Referenced(c) ==
  \/ stq[c] # <<>>
  \/ \E t \in Callers : th[t].own = c \/ (th[t].pc # "idle" /\ th[t].conn = c)

Collect(c) ==
  /\ cstate[c] = "gone" /\ ~Referenced(c)
  /\ cstate' = [cstate EXCEPT ![c] = "absent"]
  /\ destroyed' = destroyed \ {c}
  /\ connectionRoles' = [connectionRoles EXCEPT ![c] = "none"]
  /\ connectionPools' = [connectionPools EXCEPT ![c] = "none"]
  /\ transactions' = [transactions EXCEPT ![c] = NoTx]
  /\ holdTimers' = [holdTimers EXCEPT ![c] = "none"]
  /\ opened' = opened \ {c}
  /\ th' = [t \in Callers |-> IF th[t].conn = c \/ th[t].first = c
                              THEN [th[t] EXCEPT !.conn = NoConn, !.first = NoConn]
                              ELSE th[t]]
  /\ ev' = <<Ev("collect", c, Detached, "collect")>>
  /\ UNCHANGED <<stq, freeq, waitq, health, ended, shutdown, http>>

HeldTooLongWarning == "MySQL connection held for over a minute"

\* the timer set by onAcquire fires: onHeldTooLong logs; the WeakMap keeps the
\* timer object
HeldTooLong(c) ==
  /\ holdTimers[c] = "pending"
  /\ Commit(Log([Cur EXCEPT !.holdTimers[c] = "fired"], "warn", c, HeldTooLongWarning))

\* a pending timer's closure refers to the connection: no collection before it fires
CollectIdle(c) ==
  /\ holdTimers[c] # "pending"
  /\ Collect(c)

\* a slot freed by a connection that left the pool serves the oldest queued callback
PoolServe(role, connOk) ==
  /\ waitq[role] # <<>> /\ freeq[role] = <<>> /\ Absent(Cur, role) # {}
  /\ Commit(GetConnection([Cur EXCEPT !.waitq[role] = Tail(@)], role, Head(waitq[role]), connOk))

RetriesArgs == {NoRetries} \cup (0..MaxRetries)

\* what a caller may do
CallerStep(t) ==
  \/ \E kind \in {"select", "write"}, throws \in BOOLEAN, connOk \in BOOLEAN :
       Query(t, kind, throws, connOk)
  \/ \E role \in Roles, connOk \in BOOLEAN : GetConnectionCall(t, role, connOk)
  \/ \E ty \in TransactionType, connOk \in BOOLEAN : StartTransaction(t, ty, connOk)
  \/ \E throws \in BOOLEAN, r \in RetriesArgs : RunQueryCall(t, throws, r)
  \/ CommitCall(t)
  \/ RollbackCall(t)
  \/ ReleaseCall(t)

\* what the driver, the timers and the collector may do
DriverStep ==
  \/ \E c \in Conns, res \in {"ok"} \cup Errors : QueryCallback(c, res)
  \/ \E t \in Callers : RetryTimer(t)
  \/ \E c \in Conns, fatal \in BOOLEAN : ConnectionError(c, fatal)
  \/ \E c \in Conns : Collect(c)
  \/ \E role \in Roles, connOk \in BOOLEAN : PoolServe(role, connOk)
  \/ \E c \in Conns, res \in {"ok"} \cup Errors : StartCallback(c, res)
  \/ \E c \in Conns, res \in {"ok"} \cup Errors : CommitCallback(c, res)
  \/ \E c \in Conns, res \in {"ok"} \cup Errors : RollbackCallback(c, res)
  \/ \E t \in Callers : PingDone(t)
  \/ \E t \in Callers, connOk \in BOOLEAN : PingFailed(t, connOk)

Next == (\E t \in Callers : CallerStep(t)) \/ DriverStep

Spec == Init /\ [][Next]_vars

\* healthcheck() called by the first NumCheckers callers, next to the other
\* callers, which take and release connections
Checkers == 1..NumCheckers
Clients == Callers \ Checkers

HealthStep ==
  \/ \E t \in Checkers : HealthcheckCall(t)
  \/ \E t \in Callers, connOk \in BOOLEAN : TestPoolServe(t, connOk)
  \/ \E c \in Conns, res \in {"ok"} \cup Errors, d \in Durations : HealthCallback(c, res, d)
  \/ \E t \in Clients, role \in Roles, connOk \in BOOLEAN : GetConnectionCall(t, role, connOk)
  \/ \E t \in Clients : ReleaseCall(t)
  \/ \E c \in Conns : Collect(c)
  \/ \E role \in Roles, connOk \in BOOLEAN : PoolServe(role, connOk)

SpecHealth == Init /\ [][HealthStep]_vars

\* one caller's runQuery calls with budgets up to MaxBudget
FirstCaller == CHOOSE t \in Callers : \A u \in Callers : t <= u
BudgetArgs == {NoRetries} \cup (0..MaxBudget)

RetryStep ==
  \/ \E role \in Roles, connOk \in BOOLEAN : GetConnectionCall(FirstCaller, role, connOk)
  \/ \E r \in BudgetArgs : RunQueryCall(FirstCaller, FALSE, r)
  \/ \E c \in Conns, res \in {"ok"} \cup Errors : QueryCallback(c, res)
  \/ RetryTimer(FirstCaller)
  \/ ReleaseCall(FirstCaller)
  \/ \E c \in Conns : Collect(c)

SpecRetry == Init /\ [][RetryStep]_vars

\* the hold timer next to healthcheck(), callers that take and release
\* connections, and connection errors
HoldStep ==
  \/ \E c \in Conns : HeldTooLong(c)
  \/ \E t \in Checkers : HealthcheckCall(t)
  \/ \E t \in Callers, connOk \in BOOLEAN : TestPoolServe(t, connOk)
  \/ \E c \in Conns, res \in {"ok"} \cup Errors, d \in Durations : HealthCallback(c, res, d)
  \/ \E t \in Clients, role \in Roles, connOk \in BOOLEAN : GetConnectionCall(t, role, connOk)
  \/ \E t \in Clients : ReleaseCall(t)
  \/ \E c \in Conns, fatal \in BOOLEAN : ConnectionError(c, fatal)
  \/ \E c \in Conns : CollectIdle(c)
  \/ \E role \in Roles, connOk \in BOOLEAN : PoolServe(role, connOk)

SpecHold == Init /\ [][HoldStep]_vars

\* concurrent query() calls whose statements compile
QueueStep ==
  \/ \E t \in Callers, kind \in {"select", "write"}, connOk \in BOOLEAN :
       Query(t, kind, FALSE, connOk)
  \/ \E c \in Conns, res \in {"ok"} \cup Errors : QueryCallback(c, res)
  \/ \E t \in Callers : RetryTimer(t)
  \/ \E c \in Conns : Collect(c)
  \/ \E role \in Roles, connOk \in BOOLEAN : PoolServe(role, connOk)

SpecQueue == Init /\ [][QueueStep]_vars

\* destroy() next to callers that take and release connections
ShutdownStep ==
  \/ DestroyCall
  \/ \E role \in Roles, ok \in BOOLEAN : EndCallback(role, ok)
  \/ \E t \in Callers, role \in Roles, connOk \in BOOLEAN : GetConnectionCall(t, role, connOk)
  \/ \E t \in Callers : ReleaseCall(t)
  \/ \E c \in Conns : Collect(c)

SpecShutdown == Init /\ [][ShutdownStep]_vars

\* ======================= the HTTP client =======================
\* HttpClient of src/src/index.ts with retryNetworkErrors (src/src/retryable.ts)
\* and the DNS cache (src/src/dns-cache.ts).  Node's http module and the
\* dnscache package are the environment.  What the model takes from them:
\*  - a request emits 'response' once, then the response emits 'end'; or the
\*    request emits 'error' before any response;
\*  - the timeout callback runs while the request is neither answered in full
\*    nor failed; req.abort() closes the socket: before the response began the
\*    request then emits 'error' (socket hang up), after it began the response
\*    is ended early and still emits 'end';
\*  - dnscache stores the result of a lookup under a key that begins with
\*    lookup_<domain>_ once caching is enabled.
\* One client and one request are followed; method, path, headers and body
\* do not reach the retry logic and are left out.
BackoffBase == 250          \* (2 ** attempt) * 250
ErrorStatus == 400          \* res.statusCode >= 400
Null == "null"
Hostname == "api.example"
OtherHost == "cdn.example"
Domains == {Hostname, OtherHost}
Families == {"4"}
TimeoutAbort == "timeout abort"
Custom == "custom"          \* an isRetryable callback of the caller that retries every outcome

retryableNetworkError ==
  {"ECONNRESET", "ENOTFOUND", "ESOCKETTIMEDOUT", "ETIMEDOUT", "ECONNREFUSED",
   "EHOSTUNREACH", "EPIPE", "EAI_AGAIN"}

\* what the environment answers with: error codes ("" is an error without a
\* code), status codes, and the timeouts a client is built with
ErrorCodes == {"ECONNRESET", "EPROTO", ""}
Statuses == {200, 500}
HttpTimeouts == {0, 1000}

\* the outcomes handed to retryIfPossible and to reject/resolve
NoOutcome == [type |-> "none", code |-> "", status |-> 0]
TimeoutOutcome == [type |-> "symbol", code |-> TimeoutAbort, status |-> 0]
ErrorOutcome(code) == [type |-> "error", code |-> code, status |-> 0]
ResponseOutcome(status) == [type |-> "response", code |-> "", status |-> status]

\* ---- dns-cache.ts ----
\* a key of dnscache.internalCache.data: `lookup_${domain}_${family}...`
CacheKey(domain, family) == <<"lookup", domain, family>>

\* key.indexOf(pattern) === 0
IsPrefix(pattern, key) ==
  Len(pattern) <= Len(key) /\ SubSeq(key, 1, Len(pattern)) = pattern

configureDnsCache(S, enable) ==
  IF enable THEN [S EXCEPT !.http.dnsCache = "internalCache"] ELSE S

invalidateCacheForDomain(S, domain) ==
  IF S.http.dnsCache = Undefined THEN S
  ELSE LET pattern == <<"lookup", domain>>
       IN [S EXCEPT !.http.data = {key \in @ : ~IsPrefix(pattern, key)}]

\* ---- retryable.ts ----
\* the state after the call and the value returned ("undefined": no return)
retryNetworkErrors(S, outcome, options) ==
  IF outcome = TimeoutOutcome THEN [S |-> S, result |-> "true"]
  ELSE IF outcome.type = "error" /\ outcome.code # ""
       THEN LET isRetryable == outcome.code \in retryableNetworkError
            IN [S |-> IF isRetryable THEN invalidateCacheForDomain(S, options.host) ELSE S,
                result |-> IF isRetryable THEN "true" ELSE "false"]
       ELSE [S |-> S, result |-> Undefined]

\* ---- index.ts: _makeRequest ----
\* options = { hostname: this.hostname, ... } with this.options assigned over it
RequestOptions(S) == [hostname |-> S.http.client.hostname, host |-> S.http.client.host]

\* isRetryable(outcome, options) with params.isRetryable == null ? this.isRetryable : params.isRetryable
HttpIsRetryable(S, k, outcome) ==
  LET isRetryable == IF S.http.att[k].isRetryable = Null THEN S.http.client.isRetryable
                     ELSE S.http.att[k].isRetryable
  IN IF isRetryable = Custom THEN [S |-> S, result |-> "true"]
     ELSE retryNetworkErrors(S, outcome, RequestOptions(S))

\* resolve/reject of attempt k's promise; a settled promise ignores the call;
\* doRetry chained the promise to the failed attempt's: .then(resolve, reject)
RECURSIVE HttpSettle(_, _, _, _)
HttpSettle(S, k, how, value) ==
  IF k = 0 THEN S
  ELSE IF S.http.att[k].promise # "pending" THEN S
  ELSE HttpSettle([S EXCEPT !.http.att[k].promise = how, !.http.att[k].value = value],
                  S.http.att[k].parent, how, value)

\* attempt k called resolve, reject or setTimeout(doRetry)
Outcome(S, k, kind) == [S EXCEPT !.http.att[k].outcomes = Append(@, kind)]

HttpResolve(S, k, value) ==
  HttpSettle(Emit(Outcome(S, k, "resolve"), Ev("http.resolve", NoConn, k, value)),
             k, "resolved", value)

HttpReject(S, k, value) ==
  HttpSettle(Emit(Outcome(S, k, "reject"), Ev("http.reject", NoConn, k, value)),
             k, "rejected", value)

HttpBackoff(attempt) == (2 ^ attempt) * BackoffBase

retryIfPossible(S, k, outcome) ==
  LET a == S.http.att[k]
      retries == IF a.retries = NoRetries THEN S.http.client.retries ELSE a.retries
      asked == HttpIsRetryable(S, k, outcome)
  IN IF retries # 0 /\ asked.result = "true"
     THEN LET backoff == HttpBackoff(a.attempt)
              newParams == [from |-> k, retries |-> retries - 1, attempt |-> a.attempt + 1,
                            backoff |-> backoff]
          IN Emit([Outcome(asked.S, k, "retry") EXCEPT !.http.timers = Append(@, newParams)],
                  EvN("setTimeout", NoConn, k, outcome, backoff))
     ELSE HttpReject(Log(IF retries # 0 THEN asked.S ELSE S,
                         "verbose", NoConn, "Outbound HTTP request failed"),
                     k, outcome)

\* _makeRequest(method, path, params, attempt) up to req.end()
makeRequest(S, retries, isRetryable, attempt, parent) ==
  LET requestId == S.http.nextRequestId
      a == [requestId |-> requestId, attempt |-> attempt, retries |-> retries,
            isRetryable |-> isRetryable, parent |-> parent, phase |-> "sent",
            aborted |-> FALSE, status |-> 0, promise |-> "pending", value |-> NoOutcome,
            outcomes |-> <<>>]
      S1 == [S EXCEPT !.http.nextRequestId = requestId + 1, !.http.att = Append(@, a)]
  IN Emit(Log(S1, "verbose", NoConn, "Starting outgoing HTTP request"),
          EvN("request", NoConn, Len(S1.http.att), "end", attempt))

\* ---- the calls and the events ----
\* new HttpClient(params); params.options may carry the host
NewHttpClient(retries, isRetryable, timeout, host) ==
  /\ http.client = NoClient
  /\ Commit([Cur EXCEPT !.http.client =
               [hostname |-> Hostname, retries |-> retries,
                isRetryable |-> IF isRetryable = Undefined THEN "retryNetworkErrors"
                                ELSE isRetryable,
                timeout |-> timeout, host |-> host]])

\* HttpClient.configureDnsCache(params), called while the process starts
ConfigureDnsCache(enable) ==
  /\ http.dnsCache = Undefined /\ http.client = NoClient
  /\ Commit(Emit(configureDnsCache(Cur, enable), Ev("configureDnsCache", NoConn, 0, enable)))

\* dnscache: a lookup of the process is answered and cached; the client's
\* hostname is looked up while one of its requests is connecting, the other
\* domain by the rest of the process, here before the request
DnsLookup(domain, family) ==
  /\ http.dnsCache # Undefined /\ CacheKey(domain, family) \notin http.data
  /\ IF domain = Hostname THEN \E k \in DOMAIN http.att : http.att[k].phase = "sent"
     ELSE http.att = <<>>
  /\ Commit([Cur EXCEPT !.http.data = @ \cup {CacheKey(domain, family)}])

\* client.request(method, path, params)
HttpRequest(retries, isRetryable) ==
  /\ http.client # NoClient /\ http.att = <<>>
  /\ Commit(makeRequest(Cur, retries, isRetryable, 1, 0))

\* onResponse: the response has begun
HttpResponse(k, status) ==
  /\ k \in DOMAIN http.att /\ http.att[k].phase = "sent" /\ ~http.att[k].aborted
  /\ Commit(Emit([Cur EXCEPT !.http.att[k].phase = "response", !.http.att[k].status = status],
                 Ev("response", NoConn, k, status)))

\* res.on('end')
HttpEnd(k) ==
  /\ k \in DOMAIN http.att /\ http.att[k].phase = "response"
  /\ LET status == http.att[k].status
         S == Log(Emit([Cur EXCEPT !.http.att[k].phase = "ended"], Ev("end", NoConn, k, status)),
                  "verbose", NoConn, "Outbound HTTP request complete")
     IN Commit(IF status >= ErrorStatus THEN retryIfPossible(S, k, ResponseOutcome(status))
               ELSE HttpResolve(S, k, ResponseOutcome(status)))

\* req.on('error')
HttpError(k, code) ==
  /\ k \in DOMAIN http.att /\ http.att[k].phase = "sent"
  /\ LET S == Emit([Cur EXCEPT !.http.att[k].phase = "failed"], Ev("error", NoConn, k, code))
     IN Commit(IF http.att[k].aborted THEN S
               ELSE retryIfPossible(
                      Log(S, "warn", NoConn, "An error occured while trying to make an HTTP request"),
                      k, ErrorOutcome(code)))

\* the callback of req.setTimeout(timeout, ...)
HttpTimeout(k) ==
  /\ k \in DOMAIN http.att /\ http.client.timeout # 0
  /\ http.att[k].phase \in {"sent", "response"} /\ ~http.att[k].aborted
  /\ LET S == Emit(Log([Cur EXCEPT !.http.att[k].aborted = TRUE],
                       "warn", NoConn, "HTTP request timed out"),
                   Ev("abort", NoConn, k, http.att[k].phase))
     IN Commit(retryIfPossible(S, k, TimeoutOutcome))

RemoveAt(q, i) == SubSeq(q, 1, i - 1) \o SubSeq(q, i + 1, Len(q))

\* doRetry, run by setTimeout(doRetry, backoff)
HttpRetryTimer(i) ==
  /\ i \in DOMAIN http.timers /\ Len(http.att) < MaxAttempts
  /\ LET newParams == http.timers[i]
     IN Commit(makeRequest([Cur EXCEPT !.http.timers = RemoveAt(@, i)],
                           newParams.retries, http.att[newParams.from].isRetryable,
                           newParams.attempt, newParams.from))

HttpRetriesArgs == {NoRetries} \cup (0..MaxHttpRetries)

HttpStep ==
  \/ \E retries \in 0..MaxHttpRetries, isRetryable \in {Undefined, Custom},
        timeout \in HttpTimeouts, host \in {Undefined, Hostname} :
       NewHttpClient(retries, isRetryable, timeout, host)
  \/ \E enable \in BOOLEAN : ConfigureDnsCache(enable)
  \/ \E domain \in Domains, family \in Families : DnsLookup(domain, family)
  \/ \E retries \in HttpRetriesArgs, isRetryable \in {Null, Custom} :
       HttpRequest(retries, isRetryable)
  \/ \E k \in 1..MaxAttempts, status \in Statuses : HttpResponse(k, status)
  \/ \E k \in 1..MaxAttempts : HttpEnd(k)
  \/ \E k \in 1..MaxAttempts, code \in ErrorCodes : HttpError(k, code)
  \/ \E k \in 1..MaxAttempts : HttpTimeout(k)
  \/ \E i \in 1..MaxAttempts : HttpRetryTimer(i)

SpecHttp == Init /\ [][HttpStep]_vars

\* ======================= HttpTimer =======================
\* src/src/timer.ts.  process.hrtime() is the environment: a monotonic clock
\* read as [seconds, nanoseconds] with 0 <= nanoseconds < 10^9.  A Time is a
\* pair <<seconds, nanoseconds>>; a field not yet set is NoTime.
Nanos == {0, 100000000, 900000000}
Hrtimes == {<<s, ns>> : s \in 0..MaxSeconds, ns \in Nanos}

InNanos(time) == time[1] * 1000000000 + time[2]

\* the clock does not run backwards
Later(timer, now) == InNanos(timer.clock) <= InNanos(now)

\* const diff = (first, second) => [second[0] - first[0], second[1] - first[1]]
diff(first, second) == <<second[1] - first[1], second[2] - first[2]>>

\* this.<field> = process.hrtime()
Stamp(S, field, now) == [S EXCEPT !.http.timer[field] = now, !.http.timer.clock = now]

\* one `if (a && b) result.x = formatDuration(diff(a, b))` of durations()
Measure(S, name, first, second) ==
  IF first # NoTime /\ second # NoTime
  THEN Emit([S EXCEPT !.http.timer.result[name] = diff(first, second)],
            Ev("diff", NoConn, Detached, <<first, second, diff(first, second)>>))
  ELSE S

\* HttpTimer.durations(): the pairs handed to formatDuration
durations(S) ==
  LET t == S.http.timer
      ready == IF t.tlsHandshakeComplete # NoTime THEN t.tlsHandshakeComplete
               ELSE t.tcpConnectionEstablished
      S0 == [S EXCEPT !.http.timer.result = NoDurations]
      S1 == Measure(S0, "duration", t.enqueued, t.completed)
      S2 == Measure(S1, "queued", t.enqueued, t.started)
      S3 == Measure(S2, "dnsLookup", t.started, t.dnsLookupComplete)
      S4 == Measure(S3, "tcpConnection", t.dnsLookupComplete, t.tcpConnectionEstablished)
      S5 == Measure(S4, "tlsHandshake", t.tcpConnectionEstablished, t.tlsHandshakeComplete)
      S6 == Measure(S5, "timeToFirstByte", ready, t.firstByteRecieved)
  IN Measure(S6, "contentDownload", t.firstByteRecieved, t.completed)

\* new HttpTimer(req, requestId)
NewHttpTimer(now) ==
  /\ http.timer.enqueued = NoTime
  /\ Commit(Stamp(Cur, "enqueued", now))

\* req 'socket'
TimerSocket(now) ==
  /\ http.timer.enqueued # NoTime /\ http.timer.started = NoTime /\ Later(http.timer, now)
  /\ http.timer.completed = NoTime
  /\ Commit(Stamp(Cur, "started", now))

\* socket 'lookup'
TimerLookup(now) ==
  /\ http.timer.started # NoTime /\ http.timer.dnsLookupComplete = NoTime
  /\ http.timer.tcpConnectionEstablished = NoTime /\ http.timer.completed = NoTime
  /\ Later(http.timer, now)
  /\ Commit(Stamp(Cur, "dnsLookupComplete", now))

\* socket 'connect'
TimerConnect(now) ==
  /\ http.timer.started # NoTime /\ http.timer.tcpConnectionEstablished = NoTime
  /\ http.timer.completed = NoTime /\ Later(http.timer, now)
  /\ Commit(Stamp(Cur, "tcpConnectionEstablished", now))

\* socket 'secureConnect'
TimerSecureConnect(now) ==
  /\ http.timer.tcpConnectionEstablished # NoTime /\ http.timer.tlsHandshakeComplete = NoTime
  /\ http.timer.firstByteRecieved = NoTime /\ http.timer.completed = NoTime
  /\ Later(http.timer, now)
  /\ Commit(Stamp(Cur, "tlsHandshakeComplete", now))

\* onResponse: res.once('readable')
TimerReadable(now) ==
  /\ http.timer.tcpConnectionEstablished # NoTime /\ http.timer.firstByteRecieved = NoTime
  /\ http.timer.completed = NoTime /\ Later(http.timer, now)
  /\ Commit(Stamp(Cur, "firstByteRecieved", now))

\* req 'error' or res 'end'
TimerCompleted(now) ==
  /\ http.timer.enqueued # NoTime /\ http.timer.completed = NoTime /\ Later(http.timer, now)
  /\ Commit(Stamp(Cur, "completed", now))

\* timer.durations()
TimerDurations ==
  /\ http.timer.enqueued # NoTime
  /\ Commit(durations(Cur))

TimerStep ==
  \/ \E now \in Hrtimes : NewHttpTimer(now)
  \/ \E now \in Hrtimes : TimerSocket(now)
  \/ \E now \in Hrtimes : TimerLookup(now)
  \/ \E now \in Hrtimes : TimerConnect(now)
  \/ \E now \in Hrtimes : TimerSecureConnect(now)
  \/ \E now \in Hrtimes : TimerReadable(now)
  \/ \E now \in Hrtimes : TimerCompleted(now)
  \/ TimerDurations

SpecTimer == Init /\ [][TimerStep]_vars

\* ======================= BrowserHttpClient =======================
\* src/src/browser/client.ts.  XMLHttpRequest is the environment: after
\* send() it fires 'load' with a status, the raw response headers and the
\* body, or 'error'.  A string is a sequence of tokens: header names, header
\* values, the separator ": " and the line break "\r\n" are one token each,
\* so "" is <<>> and split and join work on tokens.
Sep == ": "
CRLF == "CRLF"
ContentType == <<"content-type">>
ApplicationJson == <<"application/json">>

\* the response header lines and bodies the environment draws from
HeaderLines ==
  {<<"content-type", Sep, "application/json">>, <<"content-type", Sep, "text/html">>,
   <<"set-cookie", Sep, "a=1">>, <<"set-cookie", Sep, "b=2">>,
   <<"warning", Sep, "199", Sep, "stale">>}
JsonText == <<"{\"ok\":true}">>
Bodies == {JsonText, <<"<html>">>}
LoadStatuses == {200, 404}

\* xhr.getAllResponseHeaders(): every line ends with a line break
RECURSIVE RawHeaders(_)
RawHeaders(lines) ==
  IF lines = <<>> THEN <<>> ELSE Head(lines) \o <<CRLF>> \o RawHeaders(Tail(lines))

HeaderLists == UNION {[1..n -> HeaderLines] : n \in 0..MaxHeaderLines}

FirstIndex(s, token) == CHOOSE i \in 1..Len(s) : s[i] = token /\ \A j \in 1..(i - 1) : s[j] # token

RECURSIVE SkipRun(_, _)
SkipRun(s, token) == IF s # <<>> /\ Head(s) = token THEN SkipRun(Tail(s), token) ELSE s

\* rawHeaders.split(/[\r\n]+/)
RECURSIVE SplitLines(_)
SplitLines(s) ==
  IF \A i \in 1..Len(s) : s[i] # CRLF THEN <<s>>
  ELSE LET i == FirstIndex(s, CRLF)
       IN <<SubSeq(s, 1, i - 1)>> \o SplitLines(SkipRun(SubSeq(s, i + 1, Len(s)), CRLF))

\* line.split(': ')
RECURSIVE SplitParts(_)
SplitParts(s) ==
  IF \A i \in 1..Len(s) : s[i] # Sep THEN <<s>>
  ELSE LET i == FirstIndex(s, Sep)
       IN <<SubSeq(s, 1, i - 1)>> \o SplitParts(SubSeq(s, i + 1, Len(s)))

\* parts.join(': ')
RECURSIVE JoinParts(_)
JoinParts(parts) ==
  IF parts = <<>> THEN <<>>
  ELSE IF Len(parts) = 1 THEN parts[1]
  ELSE parts[1] \o <<Sep>> \o JoinParts(Tail(parts))

\* a Headers object is a function from names to [array, items]: a string
\* value is one item with array = FALSE
NoHeaders == <<>>
HasHeader(headers, header) ==
  header \in DOMAIN headers /\ (headers[header].array \/ headers[header].items # <<<<>>>>)

\* the body of lines.forEach in processHeaders
ProcessLine(headers, line) ==
  LET parts == SplitParts(line)
      header == Head(parts)
      value == JoinParts(Tail(parts))
  IN IF HasHeader(headers, header)
     THEN [headers EXCEPT ![header] = [array |-> TRUE, items |-> Append(@.items, value)]]
     ELSE headers

RECURSIVE ProcessLines(_, _)
ProcessLines(headers, lines) ==
  IF lines = <<>> THEN headers
  ELSE ProcessLines(ProcessLine(headers, Head(lines)), Tail(lines))

processHeaders(rawHeaders) == ProcessLines(NoHeaders, SplitLines(rawHeaders))

\* JSON.parse(data): the value, or a SyntaxError
JsonParse(data) ==
  IF data = JsonText THEN [ok |-> TRUE, value |-> "ok=true"] ELSE [ok |-> FALSE, value |-> Undefined]

\* getJson(headers, data, requestId, logger): the state (a warning may be
\* logged) and the value returned
getJson(S, headers, data) ==
  IF /\ ContentType \in DOMAIN headers /\ ~headers[ContentType].array
     /\ headers[ContentType].items = <<ApplicationJson>>
  THEN IF JsonParse(data).ok THEN [S |-> S, json |-> JsonParse(data).value]
       ELSE [S |-> Log(S, "warn", NoConn,
                       "HTTP response content-type was application/json, but the payload was unparsable"),
             json |-> Undefined]
  ELSE [S |-> S, json |-> Undefined]

\* BrowserHttpClient.makeRequest up to xhr.send()
BrowserRequest ==
  /\ http.browser.pc = "idle"
  /\ Commit(Emit([Cur EXCEPT !.http.browser.pc = "sent",
                             !.http.browser.nextRequestId = @ + 1],
                 Ev("send", NoConn, Detached, http.browser.nextRequestId)))

\* xhr 'load'
BrowserLoad(lines, status, body) ==
  /\ http.browser.pc = "sent"
  /\ LET rawHeaders == RawHeaders(lines)
         headers == processHeaders(rawHeaders)
         parsed == getJson(Cur, headers, body)
         result == [status |-> status, headers |-> headers, raw |-> body, json |-> parsed.json]
     IN Commit(Emit([parsed.S EXCEPT !.http.browser.pc = "resolved",
                                     !.http.browser.result = result],
                    Ev("load", NoConn, Detached, [lines |-> lines, result |-> result])))

\* xhr 'error'
BrowserError ==
  /\ http.browser.pc = "sent"
  /\ Commit(Emit([Cur EXCEPT !.http.browser.pc = "rejected"],
                 Ev("xhr.error", NoConn, Detached, "error")))

BrowserStep ==
  \/ BrowserRequest
  \/ \E lines \in HeaderLists, status \in LoadStatuses, body \in Bodies :
       BrowserLoad(lines, status, body)
  \/ BrowserError

SpecBrowser == Init /\ [][BrowserStep]_vars

\* ======================= the claims =======================
EvIdx == 1..Len(ev)
EvCount(e, c, x) == Cardinality({i \in EvIdx : ev[i].e = e /\ ev[i].c = c /\ ev[i].x = x})
RunsQuery(t) == th[t].api \in {"query", "runQuery"}
InQueue(q, t) == \E i \in 1..Len(q) : q[i] = t
RouteOf(kind) == IF kind = "select" THEN "replica" ELSE "master"

\* C1: a call of query() asks only the pool of its kind for a connection
\* (select: replica, write: master): it is bound to, waits on and pings no
\* connection of the other pool, in every interleaving of concurrent calls.
C1_QueryRoutesByKind ==
  /\ \A t \in Callers : th[t].api = "query" =>
       /\ th[t].pool = RouteOf(th[t].kind)
       /\ th[t].conn = NoConn \/ th[t].conn[1] = RouteOf(th[t].kind)
       /\ \A r \in Roles \ {RouteOf(th[t].kind)} : ~InQueue(waitq[r], t)
  /\ \A i \in EvIdx : (ev[i].e = "acquire" /\ th[ev[i].t].api = "query") =>
       ev[i].c[1] = RouteOf(th[ev[i].t].kind)

C1_Witness ==
  \E t, u \in Callers :
    /\ th[t].api = "query" /\ th[t].kind = "select" /\ th[t].pc = "stmt"
    /\ th[t].conn[1] = "replica"
    /\ th[u].api = "query" /\ th[u].kind = "write" /\ th[u].pc = "stmt"
    /\ th[u].conn[1] = "master"

\* C2: each run of the release hook that finds a transaction record for the
\* connection issues exactly one 'rollback' on that connection and logs the
\* forced rollback exactly once, in the same step.
C2_OneRollbackPerRelease ==
  \A i \in EvIdx : (ev[i].e = "onRelease" /\ ev[i].x # NoTx) =>
    /\ EvCount("stmt", ev[i].c, "rollback") = 1
    /\ EvCount("error", ev[i].c, ForcingRollback) = 1
    /\ EvCount("onRelease", ev[i].c, ev[i].x) = 1

C2_Witness ==
  \E i, j \in EvIdx :
    /\ ev[i].e = "release" /\ ev[j].e = "onRelease" /\ ev[j].c = ev[i].c /\ ev[j].x # NoTx
    /\ stq[ev[i].c] # <<>> /\ Head(stq[ev[i].c]) = [stmt |-> "rollback", by |-> Detached]

\* C3 (as claimed): a connection idle in its pool's free list, and a connection
\* at the moment getConnection hands it out, has no transaction record.
C3_IdleHasNoTransaction ==
  /\ \A c \in Conns : cstate[c] = "free" => transactions[c] = NoTx
  /\ \A i \in EvIdx : ev[i].e = "acquire" => ev[i].x = NoTx

\* C4: commitTransaction and rollbackTransaction called by a caller on a
\* connection without a transaction record reject with their 'none is
\* running' error, issue no statement and leave the registry as it was.
C4_NoneRunningRejects ==
  [][\A i \in 1..Len(ev') :
       (ev'[i].e \in {"commitTransaction", "rollbackTransaction"}
          /\ ev'[i].t # Detached /\ ev'[i].x = NoTx) =>
         /\ \E j \in 1..Len(ev') :
              /\ ev'[j].e = "reject" /\ ev'[j].t = ev'[i].t
              /\ ev'[j].x = IF ev'[i].e = "commitTransaction"
                            THEN NoneRunningCommit ELSE NoneRunningRollback
         /\ stq' = stq
         /\ transactions' = transactions
         /\ th'[ev'[i].t].pc = "idle"]_vars

C4_Witness ==
  \E i, j \in EvIdx :
    /\ ev[i].e = "commitTransaction" /\ ev[i].x = NoTx
    /\ ev[j].e = "reject" /\ ev[j].x = NoneRunningCommit /\ ev[j].t = ev[i].t

\* C5: a fatal error answered to runQuery's statement destroys the
\* connection and rejects the call with that error; no retry timer is set and
\* the statement is not issued again, whatever isRetryable says and whatever
\* budget is left.
FatalQueryAnswer ==
  /\ Len(ev) >= 2 /\ ev[1].e = "callback" /\ ev[1].x = "query"
  /\ ev[2].e = "answer" /\ ev[2].x \in {"FATAL", "FATAL_RETRYABLE"}

C5_FatalDestroysAndRejects ==
  FatalQueryAnswer =>
    /\ ev[1].c \in destroyed
    /\ EvCount("destroy", ev[1].c, "destroy") = 1
    /\ \E j \in EvIdx : ev[j].e = "reject" /\ ev[j].t = ev[1].t /\ ev[j].x = ev[2].x
    /\ \A j \in EvIdx : ev[j].e # "timer" /\ ~(ev[j].e = "stmt" /\ ev[j].x = "query")
    /\ th[ev[1].t].pc = "idle"

C5_Witness ==
  /\ FatalQueryAnswer /\ ev[2].x = "FATAL_RETRYABLE"
  /\ \E j \in EvIdx : ev[j].e = "call" /\ ev[j].n = NoRetries
  /\ \E j \in EvIdx : ev[j].e = "reject" /\ ev[j].n = 1

C8_SameConnectionBudgetMinusOne ==
  \A t \in Callers : (RunsQuery(t) /\ th[t].pc \in {"stmt", "backoff"}) =>
    /\ th[t].conn = th[t].first
    /\ RemainingRetries(th[t].retries) = RemainingRetries(th[t].given) - (th[t].execs - 1)
    /\ th[t].pc = "stmt" =>
         \E i \in 1..Len(stq[th[t].first]) :
           stq[th[t].first][i] = [stmt |-> "query", by |-> t]

C8_Witness ==
  \E t \in Callers :
    /\ th[t].api = "runQuery" /\ th[t].pc = "stmt" /\ th[t].execs = 2
    /\ th[t].given = MaxRetries /\ th[t].retries = MaxRetries - 1
    /\ th[t].conn = th[t].first

\* C9 (as claimed): when query.compile throws, runQuery rejects with that
\* error in the same step, issues no statement and sets no retry timer; the
\* call does not stay pending.
C9_CompileErrorRejects ==
  /\ \A i \in EvIdx : ev[i].e = "throw" =>
       /\ \E j \in EvIdx : ev[j].e = "reject" /\ ev[j].t = ev[i].t /\ ev[j].x = ev[i].x
       /\ \A j \in EvIdx : ev[j].e # "timer" /\ ~(ev[j].e = "stmt" /\ ev[j].x = "query")
  /\ \A t \in Callers : th[t].pc # "hung"

\* C10 (as claimed): the registry holds a transaction record for a connection
\* only while a transaction started on it is neither committed nor rolled
\* back; after startTransaction rejects, its connection has no record.
C10_RecordOnlyWhileOpen ==
  /\ \A c \in Conns : transactions[c] # NoTx => c \in opened
  /\ \A i \in EvIdx :
       (ev[i].e = "call" /\ ev[i].x = "startTransaction" /\ ev[i + 1].e = "reject"
          /\ ev[i + 1].c # NoConn) =>
         transactions[ev[i + 1].c] = NoTx

\* C11: when the callback of a 'commit' or 'rollback' issued on a connection
\* with a transaction record runs: on success the record is removed and the
\* caller's promise resolves; on failure the record is what it was and the
\* caller's promise rejects with the driver's error.
C11_CommitRollbackOutcome ==
  [][\A c \in Conns :
       (Len(ev') >= 2 /\ ev'[1].e = "callback" /\ ev'[1].c = c
          /\ ev'[1].x \in {"commit", "rollback"} /\ transactions[c] # NoTx) =>
         IF ev'[2].x = "ok"
         THEN /\ transactions'[c] = NoTx
              /\ ev'[1].t # Detached =>
                   \E j \in 1..Len(ev') : ev'[j].e = "resolve" /\ ev'[j].t = ev'[1].t
         ELSE /\ transactions'[c] = transactions[c]
              /\ ev'[1].t # Detached =>
                   \E j \in 1..Len(ev') :
                     ev'[j].e = "reject" /\ ev'[j].t = ev'[1].t /\ ev'[j].x = ev'[2].x]_vars

C11_Witness ==
  /\ Len(ev) >= 2 /\ ev[1].e = "callback" /\ ev[1].x = "commit" /\ ev[2].x = "PLAIN"
  /\ transactions[ev[1].c] = ReadWrite
  /\ \E j \in EvIdx : ev[j].e = "reject" /\ ev[j].t = ev[1].t /\ ev[j].x = "PLAIN"

\* C12 (as claimed): once a call of query() or startTransaction() that was
\* handed a connection has rejected, that connection is not checked out any
\* more: it is back in its pool or has left it.
RejectedWith(api, c) ==
  \E i \in EvIdx :
    /\ ev[i].e = "call" /\ ev[i].x = api
    /\ ev[i + 1].e = "reject" /\ ev[i + 1].c = c

C12_RejectedCallReleases ==
  \A c \in Conns :
    (RejectedWith("query", c) \/ RejectedWith("startTransaction", c)) => cstate[c] # "busy"

\* C13 (as claimed): a statement is issued only on a connection checked out
\* by the operation issuing it: a caller's statement on the connection of its
\* call in progress, the forced rollback before the connection is back in the
\* free list; and the statements outstanding on one connection all belong to
\* one operation.
IssuedByHolder(i) ==
  IF ev[i].t \in Callers
  THEN th[ev[i].t].pc = "stmt" /\ th[ev[i].t].conn = ev[i].c
  ELSE \A j \in 1..(i - 1) : ~(ev[j].e = "release" /\ ev[j].c = ev[i].c)

OneOperation(q) == \A i, j \in 1..Len(q) : q[i].by = q[j].by

C13_ExclusiveUse ==
  /\ \A i \in EvIdx : ev[i].e = "stmt" => IssuedByHolder(i)
  /\ \A c \in Conns : OneOperation(stq[c])

\* ---- healthcheck claims (SpecHealth) ----
\* the round trip of t's check was answered in the step that left the events e
Answered(e, t) ==
  Len(e) >= 2 /\ e[1].e = "callback" /\ e[1].x = "version" /\ e[1].t = t

\* the status healthcheck() returned for a pool agrees with what the driver did
StatusMatchesOutcome(e, i) ==
  LET t == e[i].t
      status == e[i].x.status
  IN IF Answered(e, t) /\ e[2].x = "ok"
     THEN status.available /\ status.info = "none"
     ELSE /\ ~status.available /\ status.warning = "none"
          /\ IF Answered(e, t) THEN status.info = e[2].x
             ELSE \E j \in 1..Len(e) :
                    e[j].e = "getConnection" /\ e[j].t = t /\ e[j].x = status.info

\* C14: healthcheck() never rejects; it settles by resolving with the two
\* results, the master's being the status returned for the master pool and
\* the replica's the status returned for the replica pool; a status has
\* available = TRUE exactly when the pool's round trip was answered without
\* error, and otherwise available = FALSE with info the code of the error of
\* the acquisition or of the round trip.
C14_HealthcheckResolves ==
  [][\A i \in 1..Len(ev') :
       /\ ev'[i].e = "status" =>
            /\ StatusMatchesOutcome(ev', i)
            /\ ev'[i].x.pool = "master" => health'[ev'[i].t] = ev'[i].x.status
       /\ ev'[i].e = "results" =>
            /\ health[ev'[i].t] # NoResult /\ ev'[i].x.master = health[ev'[i].t]
            /\ \E j \in 1..Len(ev') :
                 /\ ev'[j].e = "status" /\ ev'[j].t = ev'[i].t
                 /\ ev'[j].x.pool = "replica" /\ ev'[j].x.status = ev'[i].x.replica
       /\ (ev'[i].e = "call" /\ ev'[i].x = "healthcheck") =>
            /\ ev'[i + 1].e = "resolve"
            /\ \E j \in 1..Len(ev') : ev'[j].e = "results" /\ ev'[j].t = ev'[i].t]_vars

C14_Witness ==
  \E i, j \in EvIdx :
    /\ ev[i].e = "results" /\ ev[i].x.master = Unavailable(ConnectError)
    /\ ev[i].x.replica = Unavailable("PLAIN")
    /\ ev[j].e = "resolve" /\ ev[j].t = ev[i].t

\* C15: a status returned after a successful round trip carries the slow
\* warning exactly when the duration read exceeds 50 ms (a whole second or
\* more, or more than 50,000,000 ns), and none otherwise; 20 ms gives
\* available = TRUE without a warning.
C15_SlowWarningOver50ms ==
  \A i, k \in EvIdx :
    (ev[i].e = "status" /\ ev[k].e = "hrtime" /\ ev[k].t = ev[i].t
       /\ Answered(ev, ev[i].t) /\ ev[2].x = "ok") =>
      /\ ev[i].x.status.available
      /\ (ev[i].x.status.warning = SlowWarning) <=> (ev[k].x[1] > 0 \/ ev[k].x[2] > 50000000)
      /\ ev[i].x.status.warning \in {SlowWarning, "none"}
      /\ ev[k].x = <<0, 20000000>> => ev[i].x.status.warning = "none"

C15_Witness ==
  \E i, k \in EvIdx :
    /\ ev[i].e = "status" /\ ev[k].e = "hrtime" /\ ev[k].t = ev[i].t
    /\ ev[k].x = <<0, 50000001>> /\ ev[i].x.status.warning = SlowWarning
    /\ ev[i].x.status.available

\* C16 (as claimed): while the master pool's check of a healthcheck() call has
\* not returned, the replica pool's check of that call has been started too
\* (its getConnection requested).
MasterCheckRunning(t) == th[t].api = "healthcheck" /\ th[t].pool = "master"
ReplicaCheckStarted(t) == th[t].api = "healthcheck" /\ th[t].pool = "replica"

C16_ChecksRunTogether ==
  \A t \in Callers : MasterCheckRunning(t) => ReplicaCheckStarted(t)

\* ---- destroy() claims (SpecShutdown) ----
\* C17: destroy() issues pool.end on both pools in every execution, whatever
\* the first close answers; its promise is resolved exactly when both closes
\* have succeeded and rejected exactly when a close has failed.
C17_BothClosesIssued ==
  /\ shutdown # "none" => \A r \in Roles : ended[r] # "open"
  /\ shutdown = "resolved" <=> \A r \in Roles : ended[r] = "closed"
  /\ shutdown = "rejected" <=> \E r \in Roles : ended[r] = "failed"

C17_Witness ==
  /\ ended["master"] = "failed" /\ ended["replica"] = "closed" /\ shutdown = "rejected"

\* C18 (as claimed): the promise of destroy() is settled only when both pool
\* closes have completed.
C18_SettlesAfterBothCloses ==
  shutdown \in {"resolved", "rejected"} => \A r \in Roles : ended[r] \in {"closed", "failed"}

\* C19: when runQuery's statement is answered with an error that is neither
\* fatal nor retryable, the call rejects with that error in the same step:
\* the statement is not issued again, no retry timer is set, and the
\* connection is neither destroyed nor released.
PlainQueryAnswer ==
  /\ Len(ev) >= 2 /\ ev[1].e = "callback" /\ ev[1].x = "query"
  /\ ev[2].e = "answer" /\ ev[2].x = "PLAIN"

C19_NonRetryableRejectsAtOnce ==
  PlainQueryAnswer =>
    /\ \E j \in EvIdx : ev[j].e = "reject" /\ ev[j].t = ev[1].t /\ ev[j].x = "PLAIN"
    /\ \A j \in EvIdx : ev[j].e \notin {"timer", "stmt", "destroy", "release", "onRelease"}
    /\ th[ev[1].t].pc = "idle"
    /\ \A c \in Conns : \A i \in 1..Len(stq[c]) : stq[c][i].by # ev[1].t

C19_Witness ==
  /\ PlainQueryAnswer /\ cstate[ev[1].c] = "busy" /\ ev[1].c \notin destroyed
  /\ \E j \in EvIdx : ev[j].e = "call" /\ ev[j].x = "runQuery" /\ ev[j].n = MaxRetries
  /\ \E j \in EvIdx : ev[j].e = "reject" /\ ev[j].x = "PLAIN" /\ ev[j].n = 1

\* C20: when a pooled connection emits 'error': for a fatal error the
\* release hook runs once for the connection (it rolls back if there is a
\* transaction record, and the hold timer is cancelled) and destroy() is
\* called on it once; for an error that is not fatal the connection is
\* neither released nor destroyed.
ErrorEvent == Len(ev) >= 1 /\ ev[1].e = "error" /\ ev[1].x = "Unhandled MySQL Error"

C20_FatalErrorEventDestroys ==
  ErrorEvent =>
    IF ev[1].n = 1
    THEN /\ \E x \in TransactionType \cup {NoTx} :
              /\ EvCount("onRelease", ev[1].c, x) = 1
              /\ EvCount("stmt", ev[1].c, "rollback") = IF x = NoTx THEN 0 ELSE 1
         /\ holdTimers[ev[1].c] = "none"
         /\ EvCount("destroy", ev[1].c, "destroy") = 1
         /\ ev[1].c \in destroyed
    ELSE /\ \A j \in EvIdx : ev[j].e \notin {"onRelease", "release", "destroy", "stmt"}
         /\ ev[1].c \notin destroyed
         /\ cstate[ev[1].c] \in {"free", "busy"}

C20_Witness ==
  /\ ErrorEvent /\ ev[1].n = 1
  /\ EvCount("onRelease", ev[1].c, ReadWrite) = 1
  /\ EvCount("stmt", ev[1].c, "rollback") = 1
  /\ ev[1].c \in destroyed

\* C21 (as claimed): no statement is issued on a connection destroy() was
\* called on before, and no statement is outstanding on a destroyed connection.
IssuedAfterDestroy(i) ==
  /\ ev[i].e = "stmt" /\ ev[i].c \in destroyed
  /\ \A j \in (i + 1)..Len(ev) : ~(ev[j].e = "destroy" /\ ev[j].c = ev[i].c)

C21_NoStatementAfterDestroy ==
  /\ \A i \in EvIdx : ~IssuedAfterDestroy(i)
  /\ \A c \in destroyed : stq[c] = <<>>

\* ---- retry delay (SpecRetry) ----
\* C22: the retry timer set after a failure with remaining budget r has the
\* delay (4 - r)^2 * 500 ms, r being the call's budget less the retries made
\* so far; without a retries argument the delays of one call are 500, 2000
\* and 4500 ms; with a budget above 4 the delays first fall to 0 (at r = 4)
\* and then rise again.
BudgetAt(t) == (IF th[t].given = NoRetries THEN 3 ELSE th[t].given) - (th[t].execs - 1)
DefaultDelays == <<500, 2000, 4500>>

C22_BackoffDelay ==
  \A i \in EvIdx : ev[i].e = "timer" =>
    LET t == ev[i].t
        r == BudgetAt(t)
    IN /\ ev[i].n = (4 - r) * (4 - r) * 500
       /\ th[t].given = NoRetries => ev[i].n = DefaultDelays[th[t].execs]
       /\ (th[t].given > 4 /\ th[t].execs = 1) => ev[i].n >= 500
       /\ (th[t].given > 4 /\ r = 4) => ev[i].n = 0
       /\ (th[t].given > 4 /\ r = 3) => ev[i].n = 500

C22_Witness ==
  \E i \in EvIdx :
    /\ ev[i].e = "timer" /\ th[ev[i].t].given = 5 /\ th[ev[i].t].execs = 2 /\ ev[i].n = 0

\* ---- hold timer (SpecHold) ----
HeldWarningAt(e, i) == e[i].e = "warn" /\ e[i].x = HeldTooLongWarning
HookRanLast(e, c) ==
  \E i \in 1..Len(e) :
    /\ e[i].e = "onRelease" /\ e[i].c = c
    /\ \A j \in (i + 1)..Len(e) : ~(e[j].e = "acquire" /\ e[j].c = c)
AcquiredUncancelled(e, c) ==
  \E i \in 1..Len(e) :
    /\ e[i].e = "acquire" /\ e[i].c = c
    /\ \A j \in 1..(i - 1) : ~(e[j].e = "onRelease" /\ e[j].c = c)

\* C23 (as claimed): the held-too-long warning is logged only for a
\* connection that is checked out, and the step that logs it changes nothing
\* but the timer; after the release hook has run for a connection its timer
\* is not pending; a connection whose timer is pending is not given another.
C23_HoldTimer ==
  [][/\ \A i \in 1..Len(ev') : HeldWarningAt(ev', i) =>
          /\ cstate[ev'[i].c] = "busy"
          /\ <<cstate, stq, freeq, waitq, destroyed, connectionRoles, connectionPools,
               transactions, opened, th, health, ended, shutdown>>' =
             <<cstate, stq, freeq, waitq, destroyed, connectionRoles, connectionPools,
               transactions, opened, th, health, ended, shutdown>>
     /\ \A c \in Conns : HookRanLast(ev', c) => holdTimers'[c] = "none"
     /\ \A c \in Conns : AcquiredUncancelled(ev', c) => holdTimers[c] # "pending"]_vars

\* ---- pool exhaustion (SpecQueue) ----
EnqueueWarning == "No remaining connections available in the database pool, queue up query"

\* a call in progress uses c and will hand it back when it settles
InUse(c) == \E t \in Callers : th[t].pc # "idle" /\ th[t].conn = c

\* C24 (as claimed): a request made while every connection of the pool is
\* checked out is queued with a warning, not rejected, and can still be
\* served: some connection of its pool is in use by a call in progress, or
\* is not checked out (free, being handed over, or its slot being freed).
C24_QueuedRequestIsServed ==
  /\ \A i \in EvIdx : (ev[i].e = "warn" /\ ev[i].x = EnqueueWarning) =>
       \E t \in Callers : th[t].pc = "wait" /\ InQueue(waitq[th[t].pool], t)
  /\ \A role \in Roles : waitq[role] # <<>> =>
       \E c \in Conns : c[1] = role /\ (cstate[c] # "busy" \/ InUse(c))

\* ---- routing of transactions ----
\* C25: a recorded read-write transaction belongs to a connection of the
\* master pool, a recorded read-only transaction to one of the replica pool.
C25_TransactionRouting ==
  \A c \in Conns :
     /\ transactions[c] = ReadWrite => connectionRoles[c] = "master" /\ c[1] = "master"
     /\ transactions[c] = ReadOnly => connectionRoles[c] = "replica" /\ c[1] = "replica"

\* both kinds of transaction are open at once, each on a checked-out connection
C25_Witness ==
  /\ \E c \in Conns : transactions[c] = ReadWrite /\ cstate[c] = "busy"
  /\ \E c \in Conns : transactions[c] = ReadOnly /\ cstate[c] = "busy"

\* ---- role and owning pool of a connection ----
\* the connection object of slot c is discarded in this step
Collected(e, c) == \E i \in 1..Len(e) : e[i].e = "collect" /\ e[i].c = c

ReleaseHookRan(e, c) == \E i \in 1..Len(e) : e[i].e = "onRelease" /\ e[i].c = c

\* C26: once the new-connection hook has given a connection its role and
\* pool, no step on the living connection changes or removes them; the
\* release hook leaves them alone as well.
C26_RoleAndPoolKept ==
  [][\A c \in Conns :
       (connectionRoles[c] # "none" /\ ~Collected(ev', c)) =>
          /\ connectionRoles'[c] = connectionRoles[c]
          /\ connectionPools'[c] = connectionPools[c]]_vars

\* the release hook has just run on a connection that has its role and pool
C26_Witness ==
  \E c \in Conns : /\ ReleaseHookRan(ev, c)
                    /\ connectionRoles[c] = c[1] /\ connectionPools[c] = "dbPool"

\* ---- urls of the health-check results ----
\* C27 (as claimed): the url of each pool's result is built from that pool's
\* configuration, so the master's and the replica's urls differ.
C27_UrlIdentifiesPool ==
  \A i \in EvIdx : ev[i].e = "status" =>
     /\ ev[i].x.url = Url(config[ev[i].x.pool])
     /\ \A role \in Roles \ {ev[i].x.pool} : ev[i].x.url # Url(config[role])

\* ---- the HTTP client (SpecHttp) ----
HttpBudget(k) ==
  IF http.att[k].retries = NoRetries THEN http.client.retries ELSE http.att[k].retries

UsesDefaultPredicate(k) ==
  http.att[k].isRetryable = Null /\ http.client.isRetryable = "retryNetworkErrors"

HostEntries == {key \in http.data : IsPrefix(<<"lookup", http.client.hostname>>, key)}

\* C28 (as claimed): when an attempt fails with a retryable network error
\* code under the default predicate and a retry is scheduled, the DNS cache
\* holds no entry for the client's hostname.
C28_CacheClearedBeforeRetry ==
  \A i \in EvIdx :
     (/\ ev[i].e = "setTimeout" /\ ev[i].x.type = "error"
      /\ ev[i].x.code \in retryableNetworkError /\ UsesDefaultPredicate(ev[i].t))
     => HostEntries = {}

\* C29 (as claimed): a request with budget n issues at most n + 1 attempts;
\* a retry has budget one less and attempt number one greater than the
\* attempt that failed and is delayed by 2^attempt * 250 ms; a retry is
\* scheduled only with budget left, and a rejection settles the attempt's
\* promise with the rejected outcome.
C29_RetryBudget ==
  /\ http.att # <<>> => Len(http.att) <= HttpBudget(1) + 1
  /\ \A k \in DOMAIN http.att : http.att[k].parent # 0 =>
       /\ http.att[k].attempt = http.att[http.att[k].parent].attempt + 1
       /\ HttpBudget(k) = HttpBudget(http.att[k].parent) - 1
  /\ \A i \in DOMAIN http.timers :
       /\ http.timers[i].backoff = (2 ^ http.att[http.timers[i].from].attempt) * 250
       /\ http.timers[i].retries >= 0
  /\ \A i \in EvIdx : ev[i].e = "http.reject" =>
       /\ http.att[ev[i].t].promise = "rejected"
       /\ http.att[ev[i].t].value = ev[i].x

\* C30 (as claimed): an attempt produces one outcome (resolve, reject or one
\* scheduled retry), and exactly one once its response ended, its request
\* failed or its timeout ran; an 'error' after the timeout abort does nothing.
C30_OneOutcomePerAttempt ==
  /\ \A k \in DOMAIN http.att :
       /\ Len(http.att[k].outcomes) <= 1
       /\ (http.att[k].phase \in {"ended", "failed"} \/ http.att[k].aborted)
            => Len(http.att[k].outcomes) = 1
  /\ \A i \in EvIdx : (ev[i].e = "error" /\ ev[i].c = NoConn /\ http.att[ev[i].t].aborted)
       => Len(ev) = 1

\* ---- HttpTimer (SpecTimer) ----
\* C31 (as claimed): for two clock readings first <= second, the difference
\* used for a reported duration is a pair [s, ns] with s >= 0 and
\* 0 <= ns < 10^9 that equals the elapsed time second - first.
C31_DiffIsNormalised ==
  \A i \in EvIdx : ev[i].e = "diff" =>
     LET first == ev[i].x[1]
         second == ev[i].x[2]
         d == ev[i].x[3]
     IN InNanos(first) <= InNanos(second) =>
          /\ d[1] >= 0 /\ d[2] >= 0 /\ d[2] < 1000000000
          /\ d[1] * 1000000000 + d[2] = InNanos(second) - InNanos(first)

\* ---- BrowserHttpClient (SpecBrowser) ----
\* the name and the value of a header line 'name: value'
LineName(line) == <<line[1]>>
LineValue(line) == SubSeq(line, 3, Len(line))

\* C32 (as claimed): every header line 'name: value' of the raw string
\* appears in the parsed headers under its name, and a response whose
\* content-type line is application/json has its body parsed into body.json.
C32_HeadersParsed ==
  \A i \in EvIdx : ev[i].e = "load" =>
     LET lines == ev[i].x.lines
         result == ev[i].x.result
     IN /\ \A k \in 1..Len(lines) :
             /\ LineName(lines[k]) \in DOMAIN result.headers
             /\ \E j \in 1..Len(result.headers[LineName(lines[k])].items) :
                  result.headers[LineName(lines[k])].items[j] = LineValue(lines[k])
        /\ (/\ \E k \in 1..Len(lines) : lines[k] = <<"content-type", Sep, "application/json">>
            /\ \A k \in 1..Len(lines) : LineName(lines[k]) = ContentType =>
                  LineValue(lines[k]) = ApplicationJson
            /\ Len(SelectSeq(lines, LAMBDA l : LineName(l) = ContentType)) = 1
            /\ result.raw = JsonText)
           => result.json = JsonParse(JsonText).value
====
